---- MODULE Spec2Model ----
(***************************************************************************)
(* Tic-tac-toe game component (components/board.tsx: Board and Game).      *)
(* The state is the pair of React state cells squares / isXNext; the       *)
(* operations are the two event handlers handleClick and restartGame.      *)
(* A JavaScript array is modelled as a function from its own property keys *)
(* to values: keys 0..length-1 are the elements, a missing key in that     *)
(* range is a hole, a negative key is a plain (non-element) property.      *)
(* The theme picker (theme, themeDialogOpen) shares no state with the      *)
(* game and is left out.                                                   *)
(***************************************************************************)
EXTENDS Integers, FiniteSets, Sequences, TLC

VARIABLES squares, isXNext, moveCount, last

vars == <<squares, isXNext, moveCount, last>>

\* ---------------------------------------------------------------- bounds
\* How far outside 0..8 an index handed to handleClick may lie (SpecAnyIndex).
Extra == 1
\* Accepted moves per game explored when indexes are unconstrained.
MaxMoves == 5

\* ------------------------------------------------------------- constants
\* Array(9)
BoardSize == 9

\* ------------------------------------------------------- JavaScript values
Marks == {"X", "O"}

\* Boolean(v) / the truthiness test of `if (v)` for the values a cell can hold
Truthy(v) == v \in Marks

\* squares[i]: the element or property if present, undefined otherwise
Get(sq, i) == IF i \in DOMAIN sq THEN sq[i] ELSE "undefined"

Max(S) == CHOOSE m \in S : \A k \in S : k <= m

\* squares.length
Length(sq) ==
    LET idx == {k \in DOMAIN sq : k >= 0}
    IN  IF idx = {} THEN 0 ELSE Max(idx) + 1

\* Array(9).fill(null)
EmptyBoard == [k \in 0..(BoardSize - 1) |-> "null"]

\* squares.slice(): copies the elements (holes stay holes), drops properties
slice(sq) == [k \in {j \in DOMAIN sq : j >= 0 /\ j < Length(sq)} |-> sq[k]]

\* nextSquares[i] = v
SetIndex(sq, i, v) == [k \in (DOMAIN sq) \cup {i} |-> IF k = i THEN v ELSE sq[k]]

\* ------------------------------------------------------------ calculateWinner
lines_noAntiDiagonal ==
    << <<0, 1, 2>>, <<3, 4, 5>>, <<6, 7, 8>>,
       <<0, 3, 6>>, <<1, 4, 7>>, <<2, 5, 8>>,
       <<0, 4, 8>> >>

lines ==
    << <<0, 1, 2>>, <<3, 4, 5>>, <<6, 7, 8>>,
       <<0, 3, 6>>, <<1, 4, 7>>, <<2, 5, 8>>,
       <<0, 4, 8>>, <<2, 4, 6>> >>

\* the test of one line inside the loop
lineMatch_twoCells(sq, line) ==
    /\ Truthy(Get(sq, line[1]))
    /\ Get(sq, line[1]) = Get(sq, line[2])

lineMatch(sq, line) ==
    /\ Truthy(Get(sq, line[1]))
    /\ Get(sq, line[1]) = Get(sq, line[2])
    /\ Get(sq, line[1]) = Get(sq, line[3])

\* for (let line of lines) { ... return squares[a] } return null
RECURSIVE scanLines(_, _)
scanLines(sq, k) ==
    IF k > Len(lines) THEN "null"
    ELSE IF lineMatch(sq, lines[k]) THEN Get(sq, lines[k][1])
    ELSE scanLines(sq, k + 1)

calculateWinner(sq) == scanLines(sq, 1)

\* ------------------------------------------------------------ derived render values
winner(sq) == calculateWinner(sq)

\* squares.every(Boolean): every() visits the elements present, skips holes
everyBoolean(sq) ==
    \A k \in DOMAIN sq : (k >= 0 /\ k < Length(sq)) => Truthy(sq[k])

isDraw_noWinnerTest(sq) == everyBoolean(sq)

isDraw(sq) == everyBoolean(sq) /\ ~Truthy(winner(sq))

status(sq, x) ==
    IF Truthy(winner(sq)) THEN "Winner: " \o winner(sq)
    ELSE IF isDraw(sq) THEN "Draw!"
    ELSE "Next player: " \o (IF x THEN "X" ELSE "O")

\* ------------------------------------------------------------ handleClick
\* if (squares[i] || calculateWinner(squares)) return;
Rejected_noWinnerTest(sq, i) == Truthy(Get(sq, i))

Rejected_noOccupiedTest(sq, i) == Truthy(calculateWinner(sq))

Rejected(sq, i) == Truthy(Get(sq, i)) \/ Truthy(calculateWinner(sq))

\* isXNext ? "X" : "O"
MarkOf_swapped(x) == IF x THEN "O" ELSE "X"

MarkOf(x) == IF x THEN "X" ELSE "O"

\* const nextSquares = squares.slice(); nextSquares[i] = ...
nextSquares_fresh(sq, i, x) == SetIndex(EmptyBoard, i, MarkOf(x))

nextSquares(sq, i, x) == SetIndex(slice(sq), i, MarkOf(x))

\* setIsXNext(!isXNext)
nextTurn_noFlip(x) == x

nextTurn(x) == ~x

handleClick(i) ==
    /\ last' = [op |-> "handleClick", arg |-> i,
                accepted |-> ~Rejected(squares, i),
                status |-> status(squares, isXNext)]
    /\ IF Rejected(squares, i)
       THEN UNCHANGED <<squares, isXNext, moveCount>>
       ELSE /\ squares' = nextSquares(squares, i, isXNext)
            /\ isXNext' = nextTurn(isXNext)
            /\ moveCount' = moveCount + 1

\* ------------------------------------------------------------ restartGame
restartTurn_keep(x) == x

restartTurn(x) == TRUE

restartGame ==
    /\ squares' = EmptyBoard
    /\ isXNext' = restartTurn(isXNext)
    /\ moveCount' = 0
    /\ last' = [op |-> "restartGame", arg |-> 0, accepted |-> TRUE,
                status |-> status(squares, isXNext)]

\* ------------------------------------------------------------ Board
\* the indexes Board wires to onClick: row * 3, row * 3 + 1, row * 3 + 2
BoardCells == {row * 3 + col : row \in {0, 1, 2}, col \in {0, 1, 2}}

\* any number a caller of handleClick(i: number) could pass, near the board
AnyIndex == (0 - Extra)..(BoardSize - 1 + Extra)

\* ------------------------------------------------------------ specifications
Init ==
    /\ squares = EmptyBoard
    /\ isXNext = TRUE
    /\ moveCount = 0
    /\ last = [op |-> "mount", arg |-> 0, accepted |-> TRUE,
               status |-> "Next player: X"]

ClickCell == \E i \in BoardCells : handleClick(i)

Next == ClickCell \/ restartGame

Spec == Init /\ [][Next]_vars

ClickAnyIndex == moveCount < MaxMoves /\ \E i \in AnyIndex : handleClick(i)

NextAnyIndex == ClickAnyIndex \/ restartGame

SpecAnyIndex == Init /\ [][NextAnyIndex]_vars

\* ------------------------------------------------------------ vocabulary of the properties
\* The eight win lines as the specification lists them: rows, columns, diagonals.
WinLines ==
    { {0, 1, 2}, {3, 4, 5}, {6, 7, 8},
      {0, 3, 6}, {1, 4, 7}, {2, 5, 8},
      {0, 4, 8}, {2, 4, 6} }

Cells == 0..8

LineOf(sq, L, m) == \A c \in L : Get(sq, c) = m

HasLine(sq, m) == \E L \in WinLines : LineOf(sq, L, m)

Occupied(sq, c) == Get(sq, c) \in Marks

Full(sq) == \A c \in Cells : Occupied(sq, c)

Terminal(sq) == HasLine(sq, "X") \/ HasLine(sq, "O") \/ Full(sq)

Count(sq, m) == Cardinality({c \in Cells : Get(sq, c) = m})

GameUnchanged == squares' = squares /\ isXNext' = isXNext

Clicked == last'.op = "handleClick"

WinScenarioBoard ==
    [c \in Cells |-> IF c \in {0, 1, 2} THEN "X"
                     ELSE IF c \in {4, 5} THEN "O" ELSE "null"]

DrawScenarioBoard ==
    [c \in Cells |-> IF c \in {0, 2, 3, 7, 8} THEN "X" ELSE "O"]

\* ------------------------------------------------------------ properties

\* C1: from a terminal board (a win line uniformly marked, or all nine cells
\* occupied) every click on a cell leaves board and turn unchanged, and any
\* step that does change them is restartGame.
C1_TerminalIsFrozen ==
    [][Terminal(squares) =>
         /\ Clicked => GameUnchanged
         /\ ~GameUnchanged => last'.op = "restartGame"]_vars

\* a click on an empty cell of a won board was ignored
C1_Witness ==
    /\ last.op = "handleClick" /\ ~last.accepted
    /\ Get(squares, last.arg) = "null"
    /\ HasLine(squares, "X") \/ HasLine(squares, "O")

\* C2: a click on a cell in 0..8 that already holds a mark changes neither
\* the board nor the turn, so the mark in that cell is not overwritten.
C2_OccupiedCellRejected ==
    [][(Clicked /\ last'.arg \in Cells /\ Occupied(squares, last'.arg))
         => GameUnchanged]_vars

\* a click on an occupied cell of a game still in progress was ignored
C2_Witness ==
    /\ last.op = "handleClick" /\ ~last.accepted
    /\ Occupied(squares, last.arg)
    /\ ~Terminal(squares)

\* C3: a click with an index outside 0..8 on a non-terminal board changes
\* neither the board (still exactly the nine cells) nor the turn.
C3_OutOfRangeRejected ==
    [][(Clicked /\ last'.arg \notin Cells /\ ~Terminal(squares))
         => (GameUnchanged /\ DOMAIN squares' = Cells)]_vars

\* C4: the k-th accepted move of a game places X when k is odd and O when k
\* is even; a rejected click does not flip the turn.
C4_TurnAlternates ==
    [][Clicked =>
         /\ moveCount' = moveCount + 1 =>
              /\ Get(squares, last'.arg) = "null"
              /\ Get(squares', last'.arg) = (IF moveCount' % 2 = 1 THEN "X" ELSE "O")
         /\ moveCount' = moveCount => isXNext' = isXNext]_vars

\* O has just made the fourth move of a game
C4_Witness ==
    /\ last.op = "handleClick" /\ last.accepted
    /\ moveCount = 4 /\ Get(squares, last.arg) = "O"

\* C5: restartGame from any reachable state gives the state of a new game:
\* nine empty cells and X to move.
C5_RestartIsNewGame ==
    [][last'.op = "restartGame" =>
         /\ DOMAIN squares' = Cells
         /\ \A c \in Cells : squares'[c] = "null"
         /\ isXNext' = TRUE]_vars

\* restart was pressed on a game in which O was next to move
C5_Witness ==
    /\ last.op = "restartGame" /\ last.status = "Next player: O"
    /\ squares = EmptyBoard /\ isXNext

\* C6: the outcome is Draw exactly when all nine cells are occupied and no
\* line is uniformly marked; a full board with a line is a win, not a draw;
\* a board with an empty cell and no line is in progress.
C6_DrawIffFullNoLine ==
    /\ isDraw(squares) <=> (Full(squares) /\ ~HasLine(squares, "X") /\ ~HasLine(squares, "O"))
    /\ (moveCount = 9 /\ ~HasLine(squares, "X") /\ ~HasLine(squares, "O"))
         => status(squares, isXNext) = "Draw!"
    /\ (Full(squares) /\ HasLine(squares, "X")) => status(squares, isXNext) = "Winner: X"
    /\ (Full(squares) /\ HasLine(squares, "O")) => status(squares, isXNext) = "Winner: O"
    /\ (~Full(squares) /\ ~HasLine(squares, "X") /\ ~HasLine(squares, "O"))
         => status(squares, isXNext) \in {"Next player: X", "Next player: O"}
    /\ squares = DrawScenarioBoard => status(squares, isXNext) = "Draw!"

\* the nine moves of the draw scenario have been played
C6_Witness ==
    /\ squares = DrawScenarioBoard /\ moveCount = 9
    /\ isDraw(squares)

\* a ninth move completed a line on a full board
C6_WitnessFullWin ==
    /\ Full(squares) /\ HasLine(squares, "X") /\ moveCount = 9

\* C7: never a line of X together with a line of O; every completed line
\* carries the mark calculateWinner returns, whichever line a scan meets first.
C7_OneWinningMark ==
    /\ ~(HasLine(squares, "X") /\ HasLine(squares, "O"))
    /\ \A k \in 1..Len(lines) :
         lineMatch(squares, lines[k]) => Get(squares, lines[k][1]) = calculateWinner(squares)

\* two different lines are complete at once
C7_Witness ==
    \E j, k \in 1..Len(lines) :
        j < k /\ lineMatch(squares, lines[j]) /\ lineMatch(squares, lines[k])

\* C8: #X - #O is 0 or 1, and X is next exactly when the counts are equal.
C8_CountsAndTurn ==
    /\ Count(squares, "X") - Count(squares, "O") \in {0, 1}
    /\ isXNext <=> (Count(squares, "X") = Count(squares, "O"))
    /\ ~isXNext <=> (Count(squares, "X") = Count(squares, "O") + 1)

\* O is to move with X one mark ahead, after several moves
C8_Witness ==
    /\ ~isXNext /\ Count(squares, "X") = 3 /\ Count(squares, "O") = 2
    /\ last.op = "handleClick" /\ last.accepted

\* C9: a click on an empty cell i of a non-terminal board puts the mover's
\* mark in cell i, leaves every other cell as it was and passes the turn;
\* a placed mark changes only through restartGame.
C9_OneCellPerMove ==
    [][/\ (Clicked /\ last'.arg \in Cells /\ ~Terminal(squares)
             /\ Get(squares, last'.arg) = "null") =>
              /\ DOMAIN squares' = DOMAIN squares
              /\ squares'[last'.arg] = (IF isXNext THEN "X" ELSE "O")
              /\ \A c \in Cells \ {last'.arg} : squares'[c] = squares[c]
              /\ isXNext' = ~isXNext
       /\ (\E c \in Cells : Occupied(squares, c) /\ Get(squares', c) # squares[c])
              => last'.op = "restartGame"]_vars

\* a move was accepted on a board that already held other marks
C9_Witness ==
    /\ last.op = "handleClick" /\ last.accepted
    /\ Occupied(squares, last.arg)
    /\ Count(squares, "X") + Count(squares, "O") >= 3

\* C10: calculateWinner returns m exactly when one of the eight lines is all
\* m, and null when no line is complete; X:0 O:4 X:1 O:5 X:2 is a win for X.
C10_WinnerIffLine ==
    /\ \A m \in Marks : calculateWinner(squares) = m <=> HasLine(squares, m)
    /\ (~HasLine(squares, "X") /\ ~HasLine(squares, "O")) <=> calculateWinner(squares) = "null"
    /\ squares = WinScenarioBoard => status(squares, isXNext) = "Winner: X"

\* the five moves of the win scenario have been played
C10_Witness ==
    /\ squares = WinScenarioBoard /\ moveCount = 5
    /\ calculateWinner(squares) = "X"

====
